---- MODULE Spec2Model ----
(***************************************************************************)
(* A model of maxun-core's browser-side scraper                            *)
(* (src/maxun-core/src/browserSide/scraper.js): the structural selector    *)
(* generator, the heuristic locator, the free-form record extractor, the   *)
(* schema extractor and the list extractor, over an explicit document      *)
(* tree.                                                                   *)
(*                                                                         *)
(* The host document is the variable dom: nodes 1..dom.n numbered in       *)
(* (shadow-including) tree order, so that ascending node number is         *)
(* document order; Document is the document node, Null is JavaScript's     *)
(* null/undefined element reference.  A selector is a sequence of steps    *)
(* joined by the child combinator '>'; a step is a tag name ("DIV") or a   *)
(* class token (".item").  A selector with the shadow delimiter '>>' is a  *)
(* sequence of such selectors (its trimmed parts).                         *)
(***************************************************************************)
EXTENDS Integers, Sequences, FiniteSets, TLC

VARIABLES
  dom,          \* the host document tree (read-only for the engine)
  window,       \* scrollX, scrollY, innerWidth, innerHeight, scroll limits
  args,         \* the arguments of the running entry point
  hpc,          \* scrapableHeuristics: position in the function
  saved,        \* scrapableHeuristics: restoreScroll's captured offsets
  maxSelector,  \* scrapableHeuristics: best candidate so far
  scroll,       \* scrapableHeuristics: the scroll loop's counter
  gi,           \* scrapableHeuristics: index of the next grid point
  seen,         \* scrapableHeuristics: the sampled selectors that passed line 83
  out,          \* scrapableHeuristics: the returned element sequence
  spc,          \* scrape: position in the function
  scrapeSel,    \* scrape: the selector argument (<<>>: null, none given)
  recs,         \* scrape: the elements being mapped to records
  crudeRecords, \* scrape: the records built so far
  lists,        \* scrapeSchema: the argument, its entries in key order
  schemaPc,     \* scrapeSchema: position in the function
  schemaResult, \* scrapeSchema: the returned records
  listArgs,     \* scrapeList: listSelector, fields (in key order), limit
  lpc,          \* scrapeList: position in the function
  parentElements, \* scrapeList: the containers of the current pass
  scrapedData   \* scrapeList: the records collected so far

heurVars   == <<window, args, hpc, saved, maxSelector, scroll, gi, seen, out>>
scrapeVars == <<spc, scrapeSel, recs, crudeRecords>>
schemaVars == <<lists, schemaPc, schemaResult>>
listVars   == <<listArgs, lpc, parentElements, scrapedData>>
vars       == <<dom, heurVars, scrapeVars, schemaVars, listVars>>

Document == 0
Null == -1

----------------------------------------------------------------------------
(* Bounds of the model and constants of the program.                       *)

HeurFree == 3          \* elements below HTML and BODY in the enumerated trees
MaxCols == 1           \* grid columns of the widest sampled viewport
MaxExtra == 1          \* small same-tag siblings added to a card page

MaxImgs == 2           \* images in a record element of a scraped page

MaxItems == 3          \* item containers of a schema or list page
MaxLimit == 3          \* largest limit given to scrapeList
MaxSiblings == 4       \* siblings of the template element of a similarity page
MaxGroups == 2         \* groups of items of a nested page
SchemaFree == 3        \* elements below HTML in the enumerated schema trees

MaxCountPerPage == 50  \* default maxCountPerPage
MinArea == 20000       \* default minArea
Scrolls == 3           \* default scrolls
GridStep == 200        \* 1 / granularity, granularity = 0.005
MinMatches == 3        \* "less than three elements" is not interesting

----------------------------------------------------------------------------
(* Generic helpers.                                                        *)

Min(S) == CHOOSE m \in S : \A x \in S : m <= x
Max(S) == CHOOSE m \in S : \A x \in S : m >= x

RECURSIVE Ascending(_)
Ascending(S) == IF S = {} THEN <<>> ELSE <<Min(S)>> \o Ascending(S \ {Min(S)})

Range(s) == {s[i] : i \in DOMAIN s}

----------------------------------------------------------------------------
(* The host tree API.                                                      *)

Nodes == 1..dom.n

IsElement(x) == x \in Nodes /\ dom.kind[x] = "element"

\* Node.parentNode: a shadow root and the document have none.
parentNode(x) == IF IsElement(x) THEN dom.up[x] ELSE Null

\* Node.parentElement: the parent when it is an element.
parentElement(x) ==
  IF IsElement(x) /\ IsElement(dom.up[x]) THEN dom.up[x] ELSE Null

\* Element.shadowRoot: the (open) shadow root hosted by x, or null.
shadowRoot(x) ==
  IF IsElement(x) /\ \E s \in Nodes : dom.kind[s] = "shadowroot" /\ dom.up[s] = x
  THEN CHOOSE s \in Nodes : dom.kind[s] = "shadowroot" /\ dom.up[s] = x
  ELSE Null

\* ParentNode.children, in document order.
children(x) == Ascending({e \in Nodes : dom.kind[e] = "element" /\ dom.up[e] = x})

\* Node.contains: b is a or a descendant of a (never across a shadow root).
RECURSIVE contains(_, _)
contains(a, b) ==
  IF b = Null THEN FALSE
  ELSE IF a = b THEN TRUE
  ELSE contains(a, parentNode(b))

MatchesStep(e, step) == step = dom.tagName[e] \/ step \in dom.classList[e]

\* Element.matches for a chain of steps joined by '>'.
RECURSIVE MatchesChain(_, _)
MatchesChain(e, sel) ==
  /\ IsElement(e)
  /\ MatchesStep(e, sel[Len(sel)])
  /\ \/ Len(sel) = 1
     \/ MatchesChain(parentElement(e), SubSeq(sel, 1, Len(sel) - 1))

\* ParentNode.querySelectorAll: the matching descendants, in document order.
querySelectorAll(root, sel) ==
  Ascending({e \in Nodes : /\ e # root
                           /\ contains(root, e)
                           /\ MatchesChain(e, sel)})

\* ParentNode.querySelector: the first match or null.
querySelector(root, sel) ==
  LET all == querySelectorAll(root, sel)
  IN IF all = <<>> THEN Null ELSE all[1]

\* Window.scrollTo: the offsets are clamped to the scrollable range.
scrollTo(w, x, y) ==
  [w EXCEPT !.scrollX = IF x > w.maxScrollX THEN w.maxScrollX ELSE x,
            !.scrollY = IF y > w.maxScrollY THEN w.maxScrollY ELSE y]

----------------------------------------------------------------------------
(* scraper.js, lines 3-34.                                                 *)

area(element) == dom.offsetHeight[element] * dom.offsetWidth[element]

\* A generator that tells an only-or-first child from its later siblings,
\* as a unique-selector generator would (":first-child").
RECURSIVE GetSelectorStructural_FirstChild(_)
GetSelectorStructural_FirstChild(element) ==
  LET step == IF \E e \in Nodes : e < element /\ dom.up[e] = dom.up[element]
              THEN <<dom.tagName[element]>>
              ELSE <<dom.tagName[element], ":first-child">>
  IN IF dom.tagName[element] = "BODY" THEN <<"BODY">>
     ELSE IF parentElement(element) # Null
          THEN GetSelectorStructural_FirstChild(parentElement(element)) \o step
          ELSE step

RECURSIVE GetSelectorStructural(_)
GetSelectorStructural(element) ==
  IF dom.tagName[element] = "BODY" THEN <<"BODY">>
  ELSE IF parentElement(element) # Null
       THEN Append(GetSelectorStructural(parentElement(element)),
                   dom.tagName[element])
       ELSE <<dom.tagName[element]>>

----------------------------------------------------------------------------
(* scrapableHeuristics, lines 41-126.                                      *)

\* getGrid(): x and y advance by 1/granularity while below the viewport size.
StepsBelow(size) == (size + GridStep - 1) \div GridStep

getGrid(w) ==
  LET cols == StepsBelow(w.innerWidth)
      rows == StepsBelow(w.innerHeight)
  IN [k \in 1..(cols * rows) |->
        [x |-> ((k - 1) \div rows) * GridStep, y |-> ((k - 1) % rows) * GridStep]]

RECURSIVE GCD(_, _)
GCD(a, b) == IF b = 0 THEN a ELSE GCD(b, a % b)

\* A metric is the number num/den, kept in lowest terms.
Fraction(num, den) == [num |-> num \div GCD(num, den), den |-> den \div GCD(num, den)]

\* JavaScript's > on two metrics.
MetricGreater(a, b) == a.num * b.den > b.num * a.den

\* lines 87-98: the metric of a candidate's qualifying elements.
Metric(elements, metricType) ==
  LET sizes == {area(elements[i]) : i \in DOMAIN elements}
  IN IF metricType = "total_area"
     THEN LET RECURSIVE Sum(_)
              Sum(i) == IF i = 0 THEN 0 ELSE Sum(i - 1) + area(elements[i])
          IN Fraction(Sum(Len(elements)), 1)
     ELSE \* size_deviation: 1 - (max - min) / max
          Fraction(Max(sizes) - (Max(sizes) - Min(sizes)), Max(sizes))

\* lines 78-79: the elements the selector matches whose area exceeds minArea.
Qualifying(selector) ==
  LET big(e) == area(e) > args.minArea
  IN SelectSeq(querySelectorAll(Document, selector), big)

\* The same with the sparse-candidate test off by one (<= 3 for < 3).
UpdatedMaximum_AtMostThree(cur, selector) ==
  LET elements == Qualifying(selector)
  IN IF Len(elements) <= MinMatches THEN cur
     ELSE LET metric == Metric(elements, args.metricType)
          IN IF MetricGreater(metric, cur.metric)
                /\ Len(elements) < args.maxCountPerPage
             THEN [selector |-> selector, metric |-> metric]
             ELSE cur

\* lines 74-103 after the hit-test: the new value of maxSelector.
UpdatedMaximum(cur, selector) ==
  LET elements == Qualifying(selector)
  IN IF Len(elements) < MinMatches THEN cur
     ELSE LET metric == Metric(elements, args.metricType)
          IN IF MetricGreater(metric, cur.metric)
                /\ Len(elements) < args.maxCountPerPage
             THEN [selector |-> selector, metric |-> metric]
             ELSE cur

\* line 117-120: no two elements of the sequence have the same parent.
ParentsDifferent(s) ==
  \A i, j \in DOMAIN s :
    parentElement(s[i]) = parentElement(s[j]) => i = j

\* line 121: Array.prototype.forEach returns undefined, which is falsy.
ForEachResult(s) == FALSE

\* lines 120-123: the generalization loop.
RECURSIVE Generalize(_)
Generalize(s) ==
  IF ParentsDifferent(s) /\ ForEachResult(s)
  THEN Generalize([i \in DOMAIN s |->
                     IF parentElement(s[i]) # Null THEN parentElement(s[i]) ELSE s[i]])
  ELSE s

\* lines 42-47 and 72: entry, capturing the scroll offsets.
HeurCall ==
  /\ hpc = "idle"
  /\ saved' = [scrollX |-> window.scrollX, scrollY |-> window.scrollY]
  /\ maxSelector' = [selector |-> <<"BODY">>, metric |-> [num |-> 0, den |-> 1]]
  /\ scroll' = 0
  /\ gi' = 0
  /\ hpc' = "loop"
  /\ UNCHANGED <<dom, window, args, seen, out>>
  /\ UNCHANGED <<scrapeVars, schemaVars, listVars>>

\* lines 105-108: one turn of the scroll loop up to the grid's construction.
HeurScroll ==
  /\ hpc = "loop"
  /\ scroll < args.scrolls
  /\ window' = scrollTo(window, 0, scroll * window.innerHeight)
  /\ gi' = 1
  /\ hpc' = "grid"
  /\ UNCHANGED <<dom, args, saved, maxSelector, scroll, seen, out>>
  /\ UNCHANGED <<scrapeVars, schemaVars, listVars>>

\* lines 75-76: document.elementFromPoint yields any element, or null (a
\* point over a scroll bar, a root with pointer-events: none).  The element
\* is used through its structural selector only, so the outcomes are the
\* selectors of the elements, and <<>> for null.
HitTests ==
  {GetSelectorStructural(e) : e \in {x \in Nodes : IsElement(x)}} \cup {<<>>}

\* line 110, one grid point: updateMaximumWithPoint (lines 74-103).  With
\* no element under the point GetSelectorStructural(null) raises a
\* TypeError that nothing catches.
HeurPoint ==
  /\ hpc = "grid"
  /\ gi <= Len(getGrid(window))
  /\ \E hit \in HitTests :
       IF hit = <<>>
       THEN /\ hpc' = "fault"
            /\ UNCHANGED <<maxSelector, gi, seen>>
       ELSE /\ maxSelector' = UpdatedMaximum(maxSelector, hit)
            /\ seen' = IF Len(Qualifying(hit)) < MinMatches
                       THEN seen ELSE seen \cup {hit}
            /\ gi' = gi + 1
            /\ hpc' = "grid"
  /\ UNCHANGED <<dom, window, args, saved, scroll, out>>
  /\ UNCHANGED <<scrapeVars, schemaVars, listVars>>

\* line 105: the grid is exhausted, scroll += 1.
HeurNextScroll ==
  /\ hpc = "grid"
  /\ gi > Len(getGrid(window))
  /\ scroll' = scroll + 1
  /\ hpc' = "loop"
  /\ UNCHANGED <<dom, window, args, saved, maxSelector, gi, seen, out>>
  /\ UNCHANGED <<scrapeVars, schemaVars, listVars>>

\* lines 113-125: restore the scroll offsets, resolve the best selector,
\* generalize, return.
HeurFinish ==
  /\ hpc = "loop"
  /\ scroll >= args.scrolls
  /\ window' = scrollTo(window, saved.scrollX, saved.scrollY)
  /\ out' = Generalize(querySelectorAll(Document, maxSelector.selector))
  /\ hpc' = "done"
  /\ UNCHANGED <<dom, args, saved, maxSelector, scroll, gi, seen>>
  /\ UNCHANGED <<scrapeVars, schemaVars, listVars>>

\* The entry points that are not running.
HeurOff ==
  /\ window = [scrollX |-> 0, scrollY |-> 0, innerWidth |-> 0, innerHeight |-> 0,
               maxScrollX |-> 0, maxScrollY |-> 0]
  /\ args = <<>> /\ hpc = "off" /\ saved = <<>> /\ maxSelector = <<>>
  /\ scroll = 0 /\ gi = 0 /\ seen = {} /\ out = <<>>
ScrapeOff == spc = "off" /\ scrapeSel = <<>> /\ recs = <<>> /\ crudeRecords = <<>>
SchemaOff == lists = <<>> /\ schemaPc = "off" /\ schemaResult = <<>>
ListOff ==
  listArgs = <<>> /\ lpc = "off" /\ parentElements = <<>> /\ scrapedData = <<>>

----------------------------------------------------------------------------
(* The documents and viewports scrapableHeuristics is run on.              *)

Small == [h |-> 100, w |-> 100]
Big   == [h |-> 300, w |-> 300]
Tall  == [h |-> 400, w |-> 300]

RECURSIVE AncOrSelf(_, _)
AncOrSelf(u, j) == IF j = 0 THEN {} ELSE {j} \cup AncOrSelf(u, u[j])

\* The parent maps of the trees with n elements numbered in document order.
PreorderUps(n) ==
  {u \in [1..n -> 0..(n - 1)] :
     /\ u[1] = 0
     /\ \A i \in 2..n : u[i] \in AncOrSelf(u, i - 1)}

LightDom(u, tags, boxes) ==
  [n |-> Len(u),
   kind |-> [i \in 1..Len(u) |-> "element"],
   up |-> u,
   tagName |-> tags,
   classList |-> [i \in 1..Len(u) |-> {}],
   offsetHeight |-> [i \in 1..Len(u) |-> boxes[i].h],
   offsetWidth |-> [i \in 1..Len(u) |-> boxes[i].w]]

\* Every tree of HTML, BODY and HeurFree further elements.
HeurTreeDoms ==
  LET n == 2 + HeurFree
  IN {LightDom(u, tags, boxes) :
        u \in {v \in PreorderUps(n) : v[2] = 1},
        tags \in {t \in [1..n -> {"HTML", "BODY", "DIV", "SPAN"}] :
                   /\ t[1] = "HTML" /\ t[2] = "BODY"
                   /\ \A i \in 3..n : t[i] \in {"DIV", "SPAN"}},
        boxes \in {b \in [1..n -> {Small, Big}] : b[1] = b[2]}}

\* A page of K cards under one container: HTML > BODY > DIV > cards, each
\* card in a wrapper of its own when wrapped; extra small elements follow
\* the cards (or wrappers) as further children of the container.
CardPage(K, wrapped, extra, ancBox, lastBox) ==
  LET per == IF wrapped THEN 2 ELSE 1
      n == 3 + per * K + extra
      isExtra(i) == i > 3 + per * K
      isWrapper(i) == wrapped /\ ~isExtra(i) /\ i > 3 /\ (i - 3) % 2 = 1
      isCard(i) == i > 3 /\ ~isExtra(i) /\ ~isWrapper(i)
  IN LightDom(
       [i \in 1..n |-> IF i <= 3 THEN i - 1
                       ELSE IF isCard(i) /\ wrapped THEN i - 1 ELSE 3],
       [i \in 1..n |-> IF i = 1 THEN "HTML" ELSE IF i = 2 THEN "BODY"
                       ELSE IF i = 3 THEN "DIV"
                       ELSE IF wrapped /\ ~isCard(i) THEN "LI" ELSE "DIV"],
       [i \in 1..n |-> IF i <= 3 \/ isWrapper(i) THEN ancBox
                       ELSE IF isExtra(i) THEN Small
                       ELSE IF i = 3 + per * K THEN lastBox ELSE Big])

CardPages ==
  {CardPage(K, wrapped, extra, ancBox, lastBox) :
     K \in {MinMatches - 1, MinMatches, 5}, wrapped \in BOOLEAN,
     extra \in 0..MaxExtra, ancBox \in {Small, Big}, lastBox \in {Big, Tall}}
  \cup {CardPage(K, FALSE, 0, Small, Big) :
          K \in {MaxCountPerPage - 1, MaxCountPerPage}}

Viewport(cols, entry) ==
  [scrollX |-> entry[1], scrollY |-> entry[2],
   innerWidth |-> GridStep * cols, innerHeight |-> GridStep,
   maxScrollX |-> 50, maxScrollY |-> 300]

DefaultArgs(metricType) ==
  [maxCountPerPage |-> MaxCountPerPage, minArea |-> MinArea,
   scrolls |-> Scrolls, metricType |-> metricType]

InitHeur ==
  /\ \/ /\ dom \in HeurTreeDoms
        /\ window = Viewport(1, <<50, 300>>)
     \/ /\ dom \in CardPages
        /\ window \in {Viewport(cols, entry) :
                         cols \in 0..MaxCols, entry \in {<<0, 0>>, <<50, 300>>}}
  /\ args \in {DefaultArgs(m) : m \in {"size_deviation", "total_area"}}
  /\ hpc = "idle"
  /\ saved = [scrollX |-> 0, scrollY |-> 0]
  /\ maxSelector = [selector |-> <<"BODY">>, metric |-> [num |-> 0, den |-> 1]]
  /\ scroll = 0
  /\ gi = 0
  /\ seen = {}
  /\ out = <<>>
  /\ ScrapeOff /\ SchemaOff /\ ListOff

NextHeur == HeurCall \/ HeurScroll \/ HeurPoint \/ HeurNextScroll \/ HeurFinish

SpecHeur == InitHeur /\ [][NextHeur]_vars

----------------------------------------------------------------------------
(* window.scrape, lines 139-182.  A string is the sequence of its pieces:  *)
(* words without blanks, " ", "," and "\n".                                *)

\* String.prototype.indexOf, 1-based, 0 when sep does not occur.
IndexOf(str, sep) ==
  LET at == {i \in 1..(Len(str) - Len(sep) + 1) :
               SubSeq(str, i, i + Len(sep) - 1) = sep}
  IN IF at = {} THEN 0 ELSE Min(at)

\* String.prototype.split on a non-empty separator.
RECURSIVE Split(_, _)
Split(str, sep) ==
  LET i == IndexOf(str, sep)
  IN IF i = 0 THEN <<str>>
     ELSE <<SubSeq(str, 1, i - 1)>> \o Split(SubSeq(str, i + Len(sep), Len(str)), sep)

\* String.prototype.trim.
RECURSIVE Trim(_)
Trim(str) ==
  IF str = <<>> THEN str
  ELSE IF Head(str) \in {" ", "\n"} THEN Trim(Tail(str))
  ELSE IF str[Len(str)] \in {" ", "\n"} THEN Trim(SubSeq(str, 1, Len(str) - 1))
  ELSE str

\* String(i), as its decimal digits.
RECURSIVE String(_)
String(i) ==
  LET digit == <<"0", "1", "2", "3", "4", "5", "6", "7", "8", "9">>[(i % 10) + 1]
  IN IF i < 10 THEN <<digit>> ELSE Append(String(i \div 10), digit)

\* String.prototype.padStart.
RECURSIVE padStart(_, _, _)
padStart(str, targetLength, pad) ==
  IF Len(str) >= targetLength THEN str ELSE padStart(<<pad>> \o str, targetLength, pad)

\* HTMLImageElement.srcset: the attribute's text, the candidates "url width"
\* joined by ", "; empty without candidates.
RECURSIVE SrcsetText(_)
SrcsetText(cands) ==
  IF cands = <<>> THEN <<>>
  ELSE LET one == <<cands[Len(cands)].url, " ", cands[Len(cands)].descriptor>>
       IN IF Len(cands) = 1 THEN one
          ELSE SrcsetText(SubSeq(cands, 1, Len(cands) - 1)) \o <<",", " ">> \o one

srcset(x) == SrcsetText(dom.candidates[x])

\* lines 150-154: url, for an image with a srcset.
SrcsetUrl(x) ==
  LET urls == Split(srcset(x), <<",", " ">>)
  IN Split(urls[Len(urls)], <<" ">>)[1]

\* lines 162-167: imgUrl; <<>> stands for every falsy value.
ImgUrl(x) ==
  IF srcset(x) # <<>> THEN SrcsetUrl(x)
  ELSE IF IndexOf(dom.src[x], <<"data:">>) = 0 THEN dom.src[x]
  ELSE <<>>

\* lines 148-173: the reduce over the record's images.
ImgKeys(record) ==
  LET imgs == querySelectorAll(record, <<"IMG">>)
      keep == {i \in 1..Len(imgs) : ImgUrl(imgs[i]) # <<>>}
  IN [k \in {<<"img_">> \o String(i - 1) : i \in keep} |->
        ImgUrl(imgs[CHOOSE i \in keep : k = <<"img_">> \o String(i - 1)])]

\* lines 174-178: the reduce over the lines of the record's text.
RecordKeys(record) ==
  LET lines == Split(dom.innerText[record], <<"\n">>)
      key(i) == <<"record_">> \o padStart(String(i - 1), 4, "0")
  IN [k \in {key(i) : i \in 1..Len(lines)} |->
        Trim(lines[CHOOSE i \in 1..Len(lines) : k = key(i)])]

\* lines 147-179: the record of one element.
CrudeRecord(record) == ImgKeys(record) @@ RecordKeys(record)

\* lines 144-146: the elements to map, or the call of scrapableHeuristics.
ScrapeCall ==
  /\ spc = "idle"
  /\ IF scrapeSel # <<>>
     THEN /\ recs' = querySelectorAll(Document, scrapeSel)
          /\ spc' = "map"
          /\ UNCHANGED hpc
     ELSE /\ hpc' = "idle"
          /\ spc' = "heur"
          /\ UNCHANGED recs
  /\ UNCHANGED <<dom, window, args, saved, maxSelector, scroll, gi, seen, out>>
  /\ UNCHANGED <<scrapeSel, crudeRecords, schemaVars, listVars>>

\* line 146: scrapableHeuristics returned, or its fault propagates.
ScrapeHeurReturn ==
  /\ spc = "heur"
  /\ hpc \in {"done", "fault"}
  /\ IF hpc = "done"
     THEN recs' = out /\ spc' = "map"
     ELSE recs' = recs /\ spc' = "fault"
  /\ UNCHANGED <<dom, heurVars, scrapeSel, crudeRecords, schemaVars, listVars>>

\* lines 147-179: the map callback on the next element.
ScrapeRecord ==
  /\ spc = "map"
  /\ Len(crudeRecords) < Len(recs)
  /\ crudeRecords' = Append(crudeRecords, CrudeRecord(recs[Len(crudeRecords) + 1]))
  /\ UNCHANGED <<dom, heurVars, spc, scrapeSel, recs, schemaVars, listVars>>

\* line 181.
ScrapeReturn ==
  /\ spc = "map"
  /\ Len(crudeRecords) = Len(recs)
  /\ spc' = "done"
  /\ UNCHANGED <<dom, heurVars, scrapeSel, recs, crudeRecords, schemaVars, listVars>>

(* The pages scrape is run on.                                             *)

SrcsetCandidates ==
  {[url |-> "a.jpg", descriptor |-> "480w", width |-> 480],
   [url |-> "b.jpg", descriptor |-> "1024w", width |-> 1024]}

\* An image: its srcset candidates in the order listed, and its src.
ImgConfigs ==
  {[candidates |-> <<>>, src |-> src] :
     src \in {<<>>, <<"http://h/x.jpg">>, <<"data:", "image/png;base64,AA">>,
              <<"http://h/x?u=", "data:", "1">>}}
  \cup {[candidates |-> <<c>>, src |-> <<"http://h/x.jpg">>] :
          c \in SrcsetCandidates}
  \cup {[candidates |-> cd, src |-> <<"http://h/x.jpg">>] :
          cd \in {p \in SrcsetCandidates \X SrcsetCandidates : p[1] # p[2]}}

\* HTML > BODY > DIV.rec > the images, then a second DIV.rec with one image
\* when two records are asked for.
ScrapePage(imgs, text, two) ==
  LET k == Len(imgs)
      n == IF two THEN 5 + k ELSE 3 + k
      cfg(i) == IF i > 3 /\ i <= 3 + k THEN imgs[i - 3]
                ELSE [candidates |-> <<>>,
                      src |-> IF i = 5 + k THEN <<"http://h/y.jpg">> ELSE <<>>]
      second == <<"w", " ", "w">>
      all == IF two THEN text \o <<"\n">> \o second ELSE text
  IN LightDom(
       [i \in 1..n |-> IF i <= 3 THEN i - 1 ELSE IF i <= 3 + k THEN 3
                       ELSE IF i = 4 + k THEN 2 ELSE 4 + k],
       [i \in 1..n |-> IF i = 1 THEN "HTML" ELSE IF i = 2 THEN "BODY"
                       ELSE IF i = 3 \/ i = 4 + k THEN "DIV" ELSE "IMG"],
       [i \in 1..n |-> Small])
     @@ [candidates |-> [i \in 1..n |-> cfg(i).candidates],
         src |-> [i \in 1..n |-> cfg(i).src],
         innerText |-> [i \in 1..n |-> IF i <= 2 THEN all
                                        ELSE IF i = 3 THEN text
                                        ELSE IF i = 4 + k THEN second ELSE <<>>]]

RECURSIVE SeqsUpTo(_, _)
SeqsUpTo(S, n) ==
  IF n = 0 THEN {<<>>}
  ELSE SeqsUpTo(S, n - 1)
       \cup {Append(q, x) : q \in {r \in SeqsUpTo(S, n - 1) : Len(r) = n - 1}, x \in S}

ScrapePages ==
  {ScrapePage(imgs, text, two) :
     imgs \in SeqsUpTo(ImgConfigs, MaxImgs),
     text \in {<<>>, <<"w">>, <<" ", "w", "\n", "\n", "w", " ">>},
     two \in BOOLEAN}

InitScrape ==
  /\ dom \in ScrapePages
  /\ window = Viewport(1, <<50, 300>>)
  /\ args = DefaultArgs("size_deviation")
  /\ hpc = "off"
  /\ saved = [scrollX |-> 0, scrollY |-> 0]
  /\ maxSelector = [selector |-> <<"BODY">>, metric |-> [num |-> 0, den |-> 1]]
  /\ scroll = 0 /\ gi = 0 /\ seen = {} /\ out = <<>>
  /\ spc = "idle"
  /\ scrapeSel \in {<<>>, <<"DIV">>}
  /\ recs = <<>>
  /\ crudeRecords = <<>>
  /\ SchemaOff /\ ListOff

NextScrape ==
  \/ ScrapeCall \/ ScrapeHeurReturn \/ ScrapeRecord \/ ScrapeReturn
  \/ (spc = "heur" /\ NextHeur)

SpecScrape == InitScrape /\ [][NextScrape]_vars

----------------------------------------------------------------------------
(* window.scrapeSchema, lines 191-338.  A JavaScript value is a string     *)
(* (the sequence of its pieces), null or undefined.                        *)

Str(s) == <<"string", s>>
JsNull == <<"null">>
Undefined == <<"undefined">>

\* Element.getAttribute: the attribute's text, or null.
getAttribute(element, name) ==
  IF name \in DOMAIN dom.attrs[element] THEN Str(dom.attrs[element][name]) ELSE JsNull

\* A value is truthy unless it is null, undefined or the empty string.
Truthy(v) == v \notin {JsNull, Undefined, Str(<<>>)}

\* new URL(relative, window.location.origin).href
AbsoluteUrl(v) == Str(<<"http://h">> \o v[2])

\* array.push(...targets) for each of the lists in turn.
RECURSIVE PushAll(_)
PushAll(arrays) ==
  IF arrays = <<>> THEN <<>> ELSE Head(arrays) \o PushAll(Tail(arrays))

\* lines 212-246: the walk through the parts of a '>>' selector.
RECURSIVE FindThroughShadow(_, _, _)
FindThroughShadow(parts, i, currentElements) ==
  IF i > Len(parts) THEN currentElements
  ELSE LET hasOpenRoot(el) == i = Len(parts) \/ shadowRoot(el) # Null
           targets(element) ==
             IF i = 1 THEN SelectSeq(querySelectorAll(element, parts[i]), hasOpenRoot)
             ELSE IF shadowRoot(element) = Null THEN <<>>
             ELSE querySelectorAll(shadowRoot(element), parts[i])
           nextElements == PushAll([k \in DOMAIN currentElements |-> targets(currentElements[k])])
       IN IF nextElements = <<>> THEN <<>>
          ELSE FindThroughShadow(parts, i + 1, nextElements)

\* lines 206-247.  config.selector is the sequence of the selector's parts
\* between '>>'; without config.shadow the text goes to querySelectorAll as
\* it is (SelectorIsInvalid tells when that throws).
findAllElements(config) ==
  IF ~config.shadow \/ Len(config.selector) = 1
  THEN querySelectorAll(Document, config.selector[1])
  ELSE FindThroughShadow(config.selector, 1, <<Document>>)

\* line 208: '>>' is no CSS combinator, querySelectorAll throws a SyntaxError.
SelectorIsInvalid(config) == ~config.shadow /\ Len(config.selector) > 1

\* lines 249-268.
getElementValue(element, attribute) ==
  IF element = Null THEN JsNull
  ELSE CASE attribute = "href" ->
              IF Truthy(getAttribute(element, "href"))
              THEN AbsoluteUrl(getAttribute(element, "href")) ELSE JsNull
         [] attribute = "src" ->
              IF Truthy(getAttribute(element, "src"))
              THEN AbsoluteUrl(getAttribute(element, "src")) ELSE JsNull
         [] attribute = "innerText" -> Str(Trim(dom.innerText[element]))
         [] attribute = "textContent" -> Str(Trim(dom.innerText[element]))
         [] OTHER ->
              IF Truthy(getAttribute(element, attribute))
              THEN getAttribute(element, attribute)
              ELSE Str(Trim(dom.innerText[element]))

\* lines 271-278: the first key whose element count is the largest.
getSeedKey(listObj) ==
  LET count(i) == Len(findAllElements(listObj[i]))
      maxLength == Max({count(i) : i \in DOMAIN listObj})
  IN Min({i \in DOMAIN listObj : count(i) = maxLength})

\* lines 284-286.
isUniqueChild(e, elements) ==
  Cardinality({k \in DOMAIN elements :
                 parentNode(e) # Null /\ contains(parentNode(e), elements[k])}) = 1

\* The walk of lines 288-290 taking one step more than it should.
RECURSIVE MBE_OneTooHigh(_, _)
MBE_OneTooHigh(candidate, elements) ==
  IF parentNode(candidate) = Null THEN candidate
  ELSE IF isUniqueChild(candidate, elements)
       THEN MBE_OneTooHigh(parentNode(candidate), elements)
       ELSE parentNode(candidate)

\* lines 283-292: the minimal bounding element of one seed element.
RECURSIVE MBE(_, _)
MBE(candidate, elements) ==
  IF candidate # Null /\ isUniqueChild(candidate, elements)
  THEN MBE(parentNode(candidate), elements)
  ELSE candidate

\* lines 281-294.
getMBEs(elements) == [k \in DOMAIN elements |-> MBE(elements[k], elements)]

Keys(listObj) == {listObj[i].key : i \in DOMAIN listObj}
ConfigOf(listObj, key) == listObj[CHOOSE i \in DOMAIN listObj : listObj[i].key = key]

\* lines 297-310.
MbeResults(listObj) ==
  LET seedElements == findAllElements(listObj[getSeedKey(listObj)])
      MBEs == getMBEs(seedElements)
      value(mbe, config) ==
        LET inside(elem) == contains(mbe, elem)
            found == SelectSeq(findAllElements(config), inside)
        IN IF found = <<>> THEN Undefined
           ELSE getElementValue(found[1], config.attribute)
  IN [k \in DOMAIN MBEs |->
        [key \in Keys(listObj) |-> value(MBEs[k], ConfigOf(listObj, key))]]

\* line 313.
SomeUndefined(results) ==
  \E k \in DOMAIN results : \E key \in DOMAIN results[k] : results[k][key] = Undefined

\* lines 315-334: the records by position in every field's element list.
PositionalZip(listObj) ==
  LET found(key) == findAllElements(ConfigOf(listObj, key))
      length == Max({Len(found(key)) : key \in Keys(listObj)})
  IN [index \in 1..length |->
        [key \in {x \in Keys(listObj) : index <= Len(found(x))} |->
           getElementValue(found(key)[index], ConfigOf(listObj, key).attribute)]]

\* scrapeSchema(lists), one call.  With no field Math.max() is -Infinity,
\* the seed key is undefined and findAllElements(undefined) throws.
ScrapeSchema ==
  /\ schemaPc = "idle"
  /\ IF lists = <<>> \/ \E i \in DOMAIN lists : SelectorIsInvalid(lists[i])
     THEN schemaPc' = "fault" /\ schemaResult' = schemaResult
     ELSE LET mbeResults == MbeResults(lists)
          IN IF SomeUndefined(mbeResults)
             THEN schemaPc' = "return334" /\ schemaResult' = PositionalZip(lists)
             ELSE schemaPc' = "return337" /\ schemaResult' = mbeResults
  /\ UNCHANGED <<dom, heurVars, scrapeVars, lists, listVars>>

\* The engine is idle after a call returned; the harness may call again.
SchemaAgain ==
  /\ schemaPc \in {"return334", "return337", "fault"}
  /\ schemaPc' = "idle"
  /\ schemaResult' = <<>>
  /\ UNCHANGED <<dom, heurVars, scrapeVars, lists, listVars>>

(* The documents and field mappings scrapeSchema is run on.                *)

\* The text an element renders: its own piece " t<number> " around the text
\* of its children.
RECURSIVE InnerTextOf(_, _)
InnerTextOf(nodes, i) ==
  LET kids == {k \in DOMAIN nodes : nodes[k].up = i /\ nodes[k].kind = "element"}
      RECURSIVE Below(_)
      Below(ks) == IF ks = <<>> THEN <<>>
                   ELSE InnerTextOf(nodes, Head(ks)) \o Below(Tail(ks))
  IN <<" ", "t">> \o String(i) \o Below(Ascending(kids)) \o <<" ">>

\* A document from its nodes in document order: each gives its parent (or
\* host), kind, tag and class tokens.  An IMG has a src and an A an href
\* unless bare.
DomOf(nodes, bare) ==
  LET n == Len(nodes)
  IN [n |-> n,
      kind |-> [i \in 1..n |-> nodes[i].kind],
      up |-> [i \in 1..n |-> nodes[i].up],
      tagName |-> [i \in 1..n |-> nodes[i].tag],
      classList |-> [i \in 1..n |-> nodes[i].cls],
      offsetHeight |-> [i \in 1..n |-> Small.h],
      offsetWidth |-> [i \in 1..n |-> Small.w],
      innerText |-> [i \in 1..n |-> InnerTextOf(nodes, i)],
      attrs |-> [i \in 1..n |->
                  IF bare THEN <<>>
                  ELSE IF nodes[i].tag = "IMG" THEN [src |-> <<"/i">> \o String(i)]
                  ELSE IF nodes[i].tag = "A" THEN [href |-> <<"/p">> \o String(i)]
                  ELSE <<>>]]

El(up, tag, cls) == [up |-> up, kind |-> "element", tag |-> tag, cls |-> cls]
Shadow(host) == [up |-> host, kind |-> "shadowroot", tag |-> "#shadow-root", cls |-> {}]

FieldTag(name) ==
  IF name = "image" THEN "IMG" ELSE IF name = "link" THEN "A" ELSE "SPAN"
FieldClass(name) ==
  IF name = "image" THEN ".image" ELSE IF name = "link" THEN ".link" ELSE ".title"

\* HTML > BODY > the items (DIV.item, each in a wrapper DIV of its own when
\* wrapped); item i holds one element for every field of present[i], in
\* the order of fieldOrder, side by side or each inside the one before.
RECURSIVE ItemNodes(_, _, _, _, _, _)
ItemNodes(present, fieldOrder, wrapped, nested, i, acc) ==
  IF i > Len(present) THEN acc
  ELSE LET w == IF wrapped THEN Append(acc, El(2, "DIV", {})) ELSE acc
           item == Len(w) + 1
           withItem == Append(w, El(IF wrapped THEN Len(w) ELSE 2, "DIV", {".item"}))
           has(name) == name \in present[i]
           fields == SelectSeq(fieldOrder, has)
       IN ItemNodes(present, fieldOrder, wrapped, nested, i + 1,
                    withItem \o [f \in 1..Len(fields) |->
                                   El(IF nested THEN item + f - 1 ELSE item,
                                      FieldTag(fields[f]), {FieldClass(fields[f])})])

ItemPage(present, fieldOrder, wrapped, nested, bare) ==
  DomOf(ItemNodes(present, fieldOrder, wrapped, nested, 1,
                  <<El(0, "HTML", {}), El(1, "BODY", {})>>), bare)

FieldNames == {"title", "image", "link"}

\* An item has every field, or every field but one, or none.
ItemFields == {FieldNames, {}} \cup {FieldNames \ {f} : f \in FieldNames}

ItemPages ==
  {ItemPage(present, fieldOrder, wrapped, nested, bare) :
     present \in UNION {[1..n -> ItemFields] : n \in 1..MaxItems},
     fieldOrder \in {<<"title", "image", "link">>, <<"link", "image", "title">>},
     wrapped \in BOOLEAN, nested \in BOOLEAN, bare \in BOOLEAN}

\* Every tree of HTML and SchemaFree further elements, each a field element
\* or a plain DIV.
SchemaTreeDoms ==
  LET n == 1 + SchemaFree
  IN {DomOf([i \in 1..n |-> IF i = 1 THEN El(0, "HTML", {})
                             ELSE El(u[i], IF c[i] = {} THEN "DIV" ELSE "SPAN", c[i])],
            FALSE) :
        u \in PreorderUps(n),
        c \in [2..n -> {{}, {".title"}, {".image"}}]}

\* HTML > BODY > two hosts; the first has the title in its shadow tree, the
\* second has it there when deep, and as a light child otherwise; both have
\* the image as a light child.
ShadowPage(deep) ==
  DomOf(<<El(0, "HTML", {}), El(1, "BODY", {}),
          El(2, "DIV", {".host", ".item"}), Shadow(3), El(4, "SPAN", {".title"}),
          El(3, "IMG", {".image"}),
          El(2, "DIV", {".host", ".item"})>>
        \o (IF deep THEN <<Shadow(7), El(8, "SPAN", {".title"}), El(7, "IMG", {".image"})>>
            ELSE <<El(7, "SPAN", {".title"}), El(7, "IMG", {".image"})>>),
        FALSE)

Field(key, selector, attribute, shadow) ==
  [key |-> key, selector |-> selector, attribute |-> attribute, shadow |-> shadow]

TitleField == Field("title", <<<<".title">>>>, "innerText", FALSE)
ImageField == Field("image", <<<<".image">>>>, "src", FALSE)
LinkField == Field("link", <<<<".link">>>>, "href", FALSE)

SchemaLists ==
  {<<TitleField, ImageField>>, <<ImageField, TitleField>>,
   <<TitleField, ImageField, LinkField>>, <<LinkField, TitleField>>,
   <<TitleField>>, <<>>,
   <<Field("title", <<<<".title">>>>, "textContent", FALSE),
     Field("image", <<<<".image">>>>, "alt", FALSE)>>}

ShadowLists ==
  {<<Field("title", <<<<".host">>, <<".title">>>>, "innerText", TRUE), ImageField>>,
   <<Field("title", <<<<".host">>, <<".title">>>>, "innerText", FALSE), ImageField>>,
   <<Field("title", <<<<".title">>>>, "innerText", TRUE), ImageField>>}

InitSchema ==
  /\ \/ dom \in ItemPages \cup SchemaTreeDoms /\ lists \in SchemaLists
     \/ dom \in {ShadowPage(deep) : deep \in BOOLEAN}
        /\ lists \in SchemaLists \cup ShadowLists
  /\ schemaPc = "idle"
  /\ schemaResult = <<>>
  /\ HeurOff /\ ScrapeOff /\ ListOff

NextSchema == ScrapeSchema \/ SchemaAgain

SpecSchema == InitSchema /\ [][NextSchema]_vars

----------------------------------------------------------------------------
(* window.scrapeList, lines 349-498.  A selector is the sequence of its    *)
(* parts between '>>'.                                                     *)

\* lines 353-391.  The test of line 363 fails for every document, element
\* and shadow root (each has querySelector), so its branch is never taken.
RECURSIVE queryShadowDOM(_, _)
queryShadowDOM(rootElement, parts) ==
  IF parts = <<>> THEN rootElement
  ELSE IF rootElement = Null THEN Null
  ELSE LET part == Head(parts)
           regular == querySelector(rootElement, part)
           own == IF regular = Null /\ shadowRoot(rootElement) # Null
                  THEN querySelector(shadowRoot(rootElement), part)
                  ELSE regular
           hosting(child) ==
             shadowRoot(child) # Null /\ querySelector(shadowRoot(child), part) # Null
           hosts == SelectSeq(children(rootElement), hosting)
           nextElement ==
             IF own # Null THEN own
             ELSE IF hosts = <<>> THEN Null
             ELSE querySelector(shadowRoot(hosts[1]), part)
       IN queryShadowDOM(nextElement, Tail(parts))

\* lines 396-424: the loop over the parts.
RECURSIVE QueryAllFrom(_, _)
QueryAllFrom(currentElements, parts) ==
  IF parts = <<>> THEN currentElements
  ELSE LET part == Head(parts)
           inShadow(x) ==
             IF shadowRoot(x) # Null THEN querySelectorAll(shadowRoot(x), part) ELSE <<>>
           from(element) ==
             querySelectorAll(element, part) \o inShadow(element)
               \o PushAll([k \in DOMAIN children(element) |->
                             inShadow(children(element)[k])])
       IN QueryAllFrom(PushAll([k \in DOMAIN currentElements |-> from(currentElements[k])]),
                       Tail(parts))

\* lines 394-425.
queryShadowDOMAll(rootElement, parts) == QueryAllFrom(<<rootElement>>, parts)

\* lines 444-449: Math.floor(k * 0.7) is (7 k) div 10.
Similar(firstMatch, element) ==
  Cardinality(dom.classList[firstMatch] \cap dom.classList[element])
    >= (Cardinality(dom.classList[firstMatch]) * 7) \div 10

\* lines 429-452: the containers of one pass.
FindParentElements(listSelector, limit) ==
  LET exact == queryShadowDOMAll(Document, listSelector)
      container == queryShadowDOM(Document, <<Head(listSelector)>>)
      firstMatch == queryShadowDOM(Document, listSelector)
      similar(element) == Similar(firstMatch, element)
  IN IF limit > 1 /\ Len(exact) <= 1 /\ container # Null /\ firstMatch # Null
     THEN SelectSeq(children(container), similar)
     ELSE exact

\* lines 465-483: the value stored for a field element.
FieldValue(fieldElement, attribute) ==
  CASE attribute = "innerText" -> Str(Trim(dom.innerText[fieldElement]))
    [] attribute = "src" ->
         IF Truthy(getAttribute(fieldElement, "src"))
         THEN AbsoluteUrl(getAttribute(fieldElement, "src")) ELSE JsNull
    [] attribute = "href" ->
         IF Truthy(getAttribute(fieldElement, "href"))
         THEN AbsoluteUrl(getAttribute(fieldElement, "href")) ELSE JsNull
    [] OTHER -> getAttribute(fieldElement, attribute)

\* lines 457-485: the record of one container; the field is looked up by
\* the last part of its selector.
RecordOf(parent, fields) ==
  LET fieldElement(f) == queryShadowDOM(parent, <<fields[f].selector[Len(fields[f].selector)]>>)
      found == {f \in DOMAIN fields : fieldElement(f) # Null}
  IN [label \in {fields[f].key : f \in found} |->
        LET f == CHOOSE g \in found : fields[g].key = label
        IN FieldValue(fieldElement(f), fields[f].attribute)]

\* lines 455-490: the records of the containers are pushed in order, the
\* empty ones skipped, until scrapedData holds limit records.
ProcessParents(data, parents, fields, limit) ==
  LET records == [i \in DOMAIN parents |-> RecordOf(parents[i], fields)]
      hasKeys(record) == DOMAIN record # {}
      pushed == SelectSeq(records, hasKeys)
  IN data \o SubSeq(pushed, 1, Min({Len(pushed), Max({0, limit - Len(data)})}))

\* line 427.
WhileTest(data) == IF Len(data) < listArgs.limit THEN "body" ELSE "done"

\* scrapeList({listSelector, fields, limit}) is called: lines 349-427.
ScrapeList ==
  /\ lpc = "idle"
  /\ scrapedData' = <<>>
  /\ lpc' = WhileTest(<<>>)
  /\ UNCHANGED <<dom, heurVars, scrapeVars, schemaVars, listArgs, parentElements>>

\* lines 429-452.
ListQuery ==
  /\ lpc = "body"
  /\ parentElements' = FindParentElements(listArgs.listSelector, listArgs.limit)
  /\ lpc' = "process"
  /\ UNCHANGED <<dom, heurVars, scrapeVars, schemaVars, listArgs, scrapedData>>

\* lines 455-490.
ListProcess ==
  /\ lpc = "process"
  /\ scrapedData' = ProcessParents(scrapedData, parentElements,
                                   listArgs.fields, listArgs.limit)
  /\ lpc' = "check"
  /\ UNCHANGED <<dom, heurVars, scrapeVars, schemaVars, listArgs, parentElements>>

\* lines 492-494, then the test of line 427 and the return of line 497.
ListCheck ==
  /\ lpc = "check"
  /\ lpc' = IF parentElements = <<>> \/ Len(scrapedData) >= Len(parentElements)
            THEN "done" ELSE WhileTest(scrapedData)
  /\ UNCHANGED <<dom, heurVars, scrapeVars, schemaVars, listArgs, parentElements,
                 scrapedData>>

(* The documents and arguments scrapeList is run on.                       *)

\* HTML > BODY > UL > LI...: the template LI (classes templateClasses, with
\* a SPAN.title and an IMG.image in it) at position at among its siblings,
\* sibling i with the classes of siblingClasses[i] and a SPAN.title.
SimilarPage(templateClasses, siblingClasses, at) ==
  LET n == Len(siblingClasses) + 1
      li(i) == 4 + 2 * (i - 1) + (IF i > at THEN 1 ELSE 0)
      classes(i) == IF i = at THEN templateClasses
                    ELSE siblingClasses[IF i < at THEN i ELSE i - 1]
      item(i) == <<El(3, "LI", classes(i)), El(li(i), "SPAN", {".title"})>>
                   \o (IF i = at THEN <<El(li(i), "IMG", {".image"})>> ELSE <<>>)
      RECURSIVE items(_)
      items(i) == IF i > n THEN <<>> ELSE item(i) \o items(i + 1)
  IN DomOf(<<El(0, "HTML", {}), El(1, "BODY", {}), El(2, "UL", {})>> \o items(1), FALSE)

SimilarPages ==
  {SimilarPage(t, s, IF last THEN Len(s) + 1 ELSE 1) :
     t \in {{".first"}, {".card", ".a", ".first"}},
     s \in UNION {[1..k -> {{".card", ".a"}, {".card"}}] : k \in 0..MaxSiblings},
     last \in BOOLEAN}

\* HTML > BODY > the groups.  A group is DIV (> DIV when deep) holding its
\* LI.item > SPAN.title items, in the shadow tree of the inner DIV when
\* shadow.
RECURSIVE GroupNodes(_, _, _)
GroupNodes(groups, g, acc) ==
  IF g > Len(groups) THEN acc
  ELSE LET outer == Len(acc) + 1
           inner == IF groups[g].deep THEN outer + 1 ELSE outer
           divs == <<El(2, "DIV", {})>>
                     \o (IF groups[g].deep THEN <<El(outer, "DIV", {})>> ELSE <<>>)
                     \o (IF groups[g].shadow THEN <<Shadow(inner)>> ELSE <<>>)
           holder == IF groups[g].shadow THEN inner + 1 ELSE inner
           base == Len(acc) + Len(divs)
           items == PushAll([i \in 1..groups[g].items |->
                               <<El(holder, "LI", {".item"}),
                                 El(base + 2 * i - 1, "SPAN", {".title"})>>])
       IN GroupNodes(groups, g + 1, acc \o divs \o items)

GroupPage(groups) ==
  DomOf(GroupNodes(groups, 1, <<El(0, "HTML", {}), El(1, "BODY", {})>>), FALSE)

Groups == [deep : BOOLEAN, shadow : BOOLEAN, items : 1..2]

GroupPages == {GroupPage(groups) : groups \in UNION {[1..n -> Groups] : n \in 1..MaxGroups}}

\* The item pages of scrapeSchema, unwrapped and flat.
ListItemPages ==
  {ItemPage(present, <<"title", "image", "link">>, FALSE, FALSE, bare) :
     present \in UNION {[1..n -> ItemFields] : n \in 1..MaxItems},
     bare \in BOOLEAN}

ListSelectors ==
  {<<<<".item">>>>, <<<<".missing">>>>, <<<<"DIV">>, <<".item">>>>,
   <<<<".first">>>>, <<<<"UL">>, <<".first">>>>}

ListFields ==
  {<<TitleField, ImageField>>, <<TitleField>>, <<>>,
   <<Field("title", <<<<".item">>, <<".title">>>>, "innerText", FALSE),
     Field("image", <<<<".image">>>>, "alt", FALSE)>>}

InitList ==
  /\ dom \in ListItemPages \cup SimilarPages \cup GroupPages
  /\ listArgs \in [listSelector : ListSelectors, fields : ListFields, limit : 0..MaxLimit]
  /\ lpc = "idle"
  /\ parentElements = <<>>
  /\ scrapedData = <<>>
  /\ HeurOff /\ ScrapeOff /\ SchemaOff

NextList == ScrapeList \/ ListQuery \/ ListProcess \/ ListCheck

SpecList == InitList /\ [][NextList]_vars

\* The call is synchronous script that nothing suspends: while it has not
\* returned it takes its next step.  Every step moves lpc and a step is
\* possible exactly while lpc is not "done", so the weak fairness of the
\* steps of NextList is stated on lpc.
ListStep ==
  /\ lpc \in {"idle", "body", "process", "check"}
  /\ lpc' \in {"body", "process", "check", "done"}

FairSpecList == SpecList /\ WF_lpc(ListStep)

----------------------------------------------------------------------------
(* Properties of scrapableHeuristics and GetSelectorStructural.            *)

Elements == {e \in Nodes : IsElement(e)}

\* C5 (as claimed): whenever the call has ended, by normal return or by a
\* fault raised during sampling, the window scroll position equals the
\* position captured on entry.
C5_ScrollRestoredOnEveryExit ==
  hpc \in {"done", "fault"} =>
    /\ window.scrollX = saved.scrollX
    /\ window.scrollY = saved.scrollY

\* The elements the best selector matches, before generalization.
Matched == querySelectorAll(Document, maxSelector.selector)

\* The generalization the comment at lines 118-119 describes: lift every
\* element to its parent for as long as the parents exist and are pairwise
\* different.
RECURSIVE HighestLift(_)
HighestLift(s) ==
  IF (\A i \in DOMAIN s : parentElement(s[i]) # Null) /\ ParentsDifferent(s)
  THEN HighestLift([i \in DOMAIN s |-> parentElement(s[i])])
  ELSE s

\* C6 (as claimed): two or more matched elements whose parents are
\* pairwise distinct are returned lifted, as the highest lift in which no
\* two elements share a parent one level further up.
C6_DistinctParentsAreLifted ==
  (/\ hpc = "done"
   /\ Len(Matched) >= 2
   /\ \A i \in DOMAIN Matched : parentElement(Matched[i]) # Null
   /\ ParentsDifferent(Matched))
  => out = HighestLift(Matched) /\ out # Matched

\* The elements whose rendered area exceeds the default minArea.
BigElements == {e \in Elements : area(e) > MinArea}

\* The premise of C9: the elements above minArea are K >= 3 equally-sized
\* siblings of one tag, and the call runs with the default parameters.
CardsPremise ==
  /\ Cardinality(BigElements) >= 3
  /\ \A a, b \in BigElements :
       /\ parentElement(a) # Null
       /\ parentElement(a) = parentElement(b)
       /\ dom.tagName[a] = dom.tagName[b]
       /\ dom.offsetHeight[a] = dom.offsetHeight[b]
       /\ dom.offsetWidth[a] = dom.offsetWidth[b]
  /\ args = DefaultArgs("size_deviation")

\* The structural selector the cards share.
CardSelector == GetSelectorStructural(CHOOSE c \in BigElements : TRUE)

\* C9 (as claimed, for the runs in which a sample point hit a card): the
\* call returns exactly the K cards.
C9_ReturnsExactlyTheCards ==
  (hpc = "done" /\ CardsPremise /\ CardSelector \in seen)
  => out = Ascending(BigElements)

\* C9 (amended): with fewer than maxCountPerPage cards and no other element
\* matching the cards' structural selector, a call that returns yields
\* exactly the K cards when some sample point hit a card, and the elements
\* of the default selector 'body' when none did.
C9_ReturnsTheCardsBelowMaxCount ==
  (/\ hpc = "done"
   /\ CardsPremise
   /\ Cardinality(BigElements) < MaxCountPerPage
   /\ Range(querySelectorAll(Document, CardSelector)) = BigElements)
  => out = IF CardSelector \in seen
           THEN Ascending(BigElements)
           ELSE querySelectorAll(Document, <<"BODY">>)

\* C9 witness: the call returned on a page of 5 cards of 300x300, one of
\* which a sample point hit.
C9_Witness ==
  /\ hpc = "done"
  /\ CardsPremise
  /\ Cardinality(BigElements) = 5
  /\ \A c \in BigElements : dom.offsetHeight[c] = 300 /\ dom.offsetWidth[c] = 300
  /\ Range(querySelectorAll(Document, CardSelector)) = BigElements
  /\ CardSelector \in seen
  /\ out = Ascending(BigElements)

\* C10 (as claimed): any two elements with the same parent have the same
\* structural selector.
C10_SiblingsShareSelector ==
  \A a, b \in Elements :
    parentNode(a) = parentNode(b)
    => GetSelectorStructural(a) = GetSelectorStructural(b)

\* C10 (amended): any two elements with the same parent and the same tag
\* name have the same structural selector.
C10_SameTagSiblingsShareSelector ==
  \A a, b \in Elements :
    (parentNode(a) = parentNode(b) /\ dom.tagName[a] = dom.tagName[b])
    => GetSelectorStructural(a) = GetSelectorStructural(b)

\* C10 witness: sampling computed the selector of an element below BODY's
\* children that has a sibling of its own tag, and kept it as the best.
C10_Witness ==
  /\ hpc = "done"
  /\ \E a, b \in Elements :
       /\ a # b
       /\ parentNode(a) = parentNode(b)
       /\ dom.tagName[a] = dom.tagName[b]
       /\ Len(GetSelectorStructural(a)) >= 3
       /\ maxSelector.selector = GetSelectorStructural(a)

----------------------------------------------------------------------------
(* Properties of window.scrape.                                            *)

\* The URL of the widest candidate of an image's source set.
WidestUrl(x) ==
  LET cands == Range(dom.candidates[x])
  IN <<(CHOOSE c \in cands : \A d \in cands : d.width <= c.width).url>>

\* C8 (as claimed): in every returned record, an image with a source set
\* is stored under img_<index> as the URL of its widest candidate, and an
\* image without a source set whose src is a data URI has no img_ key.
C8_WidestCandidateIsStored ==
  spc = "done" =>
    \A j \in 1..Len(recs) :
      LET imgs == querySelectorAll(recs[j], <<"IMG">>)
      IN \A i \in 1..Len(imgs) :
           LET key == <<"img_">> \o String(i - 1)
               x == imgs[i]
           IN /\ dom.candidates[x] # <<>> =>
                   /\ key \in DOMAIN crudeRecords[j]
                   /\ crudeRecords[j][key] = WidestUrl(x)
              /\ (dom.candidates[x] = <<>> /\ dom.src[x] # <<>>
                    /\ Head(dom.src[x]) = "data:") =>
                   key \notin DOMAIN crudeRecords[j]

----------------------------------------------------------------------------
(* Properties of window.scrapeSchema.                                      *)

Items == querySelectorAll(Document, <<".item">>)

\* The elements of a field that an item container holds.
Own(item, config) ==
  LET inside(e) == contains(item, e)
  IN SelectSeq(findAllElements(config), inside)

OwnValue(item, config) == getElementValue(Own(item, config)[1], config.attribute)

ValidLists ==
  /\ Len(lists) >= 1
  /\ \A i \in DOMAIN lists : ~SelectorIsInvalid(lists[i])

\* Field f resolves once in every item but item j, and nowhere else.
ResolvesInAllBut(f, j) ==
  /\ Len(findAllElements(lists[f])) = Len(Items) - 1
  /\ Own(Items[j], lists[f]) = <<>>
  /\ \A k \in DOMAIN Items \ {j} : Len(Own(Items[k], lists[f])) = 1

\* Field g resolves once in every item, and nowhere else.
ResolvesInAll(g) ==
  /\ Len(findAllElements(lists[g])) = Len(Items)
  /\ \A k \in DOMAIN Items : Len(Own(Items[k], lists[g])) = 1

Deficient(f, j) ==
  /\ ValidLists /\ Len(lists) >= 2
  /\ ResolvesInAllBut(f, j)
  /\ \A g \in DOMAIN lists \ {f} : ResolvesInAll(g)

\* C3: when one field resolves in all but one of the N item containers and
\* every other field resolves once in each, scrapeSchema returns through
\* the positional fallback without a fault, the record of the deficient
\* item has that field missing or null, and the record of every other item
\* carries the item's own value for it.
C3_DeficientItemLacksTheField ==
  \A f \in DOMAIN lists : \A j \in DOMAIN Items :
    schemaPc # "idle" /\ Deficient(f, j) =>
      /\ schemaPc = "return334"
      /\ Len(schemaResult) = Len(Items)
      /\ \/ lists[f].key \notin DOMAIN schemaResult[j]
         \/ schemaResult[j][lists[f].key] = JsNull
      /\ \A k \in DOMAIN Items \ {j} :
           /\ lists[f].key \in DOMAIN schemaResult[k]
           /\ schemaResult[k][lists[f].key] = OwnValue(Items[k], lists[f])

Uniform == ValidLists /\ Items # <<>> /\ \A g \in DOMAIN lists : ResolvesInAll(g)

\* C4: over N >= 1 item containers each holding exactly one element for
\* every declared field, scrapeSchema returns through the MBE grouping (not
\* the positional fallback) exactly N records, record k carrying for every
\* field the value of the field's element in the k-th container in document
\* order.
C4_UniformItemsGroupedByMBE ==
  schemaPc # "idle" /\ Uniform =>
    /\ schemaPc = "return337"
    /\ Len(schemaResult) = Len(Items)
    /\ \A k \in DOMAIN Items :
         /\ DOMAIN schemaResult[k] = Keys(lists)
         /\ \A g \in DOMAIN lists :
              schemaResult[k][lists[g].key] = OwnValue(Items[k], lists[g])

C4_Witness ==
  /\ schemaPc = "return337" /\ Uniform
  /\ Len(Items) = MaxItems /\ Len(lists) >= 2
  /\ \E k \in DOMAIN Items : \E g \in DOMAIN lists :
       Truthy(schemaResult[k][lists[g].key]) /\ parentNode(Own(Items[k], lists[g])[1]) # Items[k]

SeedElements == findAllElements(lists[getSeedKey(lists)])

\* The seed elements (by position) that a node contains.
SeedsIn(seeds, node) == {k \in DOMAIN seeds : contains(node, seeds[k])}

\* Seed element k has no other seed element inside it.
Innermost(seeds, k) == SeedsIn(seeds, seeds[k]) = {k}

GroupingRan == ValidLists /\ schemaPc \in {"return334", "return337"}

\* C12 as stated: getMBEs returns one minimal bounding element per seed
\* element, and every one of them contains exactly one seed element, its
\* own, also when seed elements are nested inside one another.
C12_EveryMBEHoldsOneSeed ==
  GroupingRan =>
    LET seeds == SeedElements
        MBEs == getMBEs(seeds)
    IN /\ Len(MBEs) = Len(seeds)
       /\ \A k \in DOMAIN seeds : SeedsIn(seeds, MBEs[k]) = {k}

\* C12: getMBEs returns one minimal bounding element per seed element;
\* every one of them contains its own seed element, and contains no other
\* seed element when its own has no seed element nested inside it.
C12_MBEOfInnermostHoldsOneSeed ==
  GroupingRan =>
    LET seeds == SeedElements
        MBEs == getMBEs(seeds)
    IN /\ Len(MBEs) = Len(seeds)
       /\ \A k \in DOMAIN seeds :
            /\ k \in SeedsIn(seeds, MBEs[k])
            /\ Innermost(seeds, k) => SeedsIn(seeds, MBEs[k]) = {k}

\* Nested seed elements, the inner one with a bounding element above it.
C12_Witness ==
  /\ GroupingRan
  /\ LET seeds == SeedElements
         MBEs == getMBEs(seeds)
     IN \E k \in DOMAIN seeds :
          /\ Innermost(seeds, k)
          /\ MBEs[k] # seeds[k]
          /\ \E j \in DOMAIN seeds \ {k} : contains(seeds[j], seeds[k])

----------------------------------------------------------------------------
(* Properties of window.scrapeList.                                        *)

\* C1: for every document, listSelector, fields mapping and limit the
\* collection loop of scrapeList eventually exits and the call returns,
\* also when no container is found and when containers are found in which
\* some or all field selectors resolve to nothing.
C1_ScrapeListReturns == <>(lpc = "done")

ExactMatches == queryShadowDOMAll(Document, listArgs.listSelector)

\* The containers the list selector matches, in document order.
Containers == Ascending(Range(ExactMatches))

\* Every container has every field populated.
UniformContainers ==
  /\ Len(listArgs.fields) >= 1
  /\ \A c \in Range(ExactMatches) :
       DOMAIN RecordOf(c, listArgs.fields) = Keys(listArgs.fields)

\* C2: scrapeList never returns more than limit records, and when the list
\* selector matches M >= limit uniform containers it returns exactly limit
\* records, record i being the record of the i-th container in document
\* order.
C2_FirstLimitContainers ==
  lpc = "done" =>
    /\ Len(scrapedData) <= listArgs.limit
    /\ UniformContainers /\ Len(Containers) >= listArgs.limit =>
         /\ Len(scrapedData) = listArgs.limit
         /\ \A i \in 1..listArgs.limit :
              scrapedData[i] = RecordOf(Containers[i], listArgs.fields)

\* The other children of the template's parent that share at least
\* floor(0.7 k) of the template's k class tokens.
SimilarSiblings(template) ==
  {e \in Nodes : /\ IsElement(e) /\ e # template
                 /\ parentNode(e) = parentNode(template)
                 /\ Similar(template, e)}

\* C7: with limit > 1, when the exact list selector resolves to one element
\* only, the containers accepted by the similarity fallback are the
\* siblings of that element that share at least floor(0.7 k) of its k
\* class tokens, each once (4 containers when there are 4 such siblings).
C7_FallbackAcceptsSimilarSiblings ==
  /\ lpc \in {"process", "check", "done"}
  /\ listArgs.limit > 1
  /\ Len(ExactMatches) = 1
  => /\ Range(parentElements) = SimilarSiblings(ExactMatches[1])
     /\ Len(parentElements) = Cardinality(SimilarSiblings(ExactMatches[1]))

\* The accepted containers (the entries of parentElements) that have at
\* least one populated field.
Productive ==
  {i \in DOMAIN parentElements :
     DOMAIN RecordOf(parentElements[i], listArgs.fields) # {}}

\* C11: scrapeList makes a single pass over the accepted containers: the
\* returned records are records of accepted containers, a container
\* contributes at most one of them and a container with no populated field
\* none, so the result is never longer than the number of accepted
\* containers with at least one populated field.
C11_SinglePass ==
  lpc = "done" =>
    /\ \A k \in DOMAIN scrapedData : \E i \in Productive :
         scrapedData[k] = RecordOf(parentElements[i], listArgs.fields)
    /\ Len(scrapedData) <= Cardinality(Productive)

====
